---- MODULE Spec2Model ----
(***************************************************************************)
(* The subprocess runner of dev_env_mcp (src/dev_env_mcp/runner.py):       *)
(* run() launches one child, two reader threads capture its stdout and     *)
(* stderr up to a cap, and a polling loop decides when the run is over:    *)
(* natural exit, verified early exit, idle timeout or hard timeout.        *)
(*                                                                         *)
(* Time is counted in whole seconds of time.monotonic() since `start`.     *)
(* The loop's time.sleep(0.2) crosses at most one whole-second boundary,   *)
(* so one Sleep advances the clock by 0 or 1; the verification predicate   *)
(* runs for 0..MaxVerifyDur seconds.  None is NoTime for instants and      *)
(* "none" for the reason; idle_timeout_sec = 0 stands for None as well     *)
(* (line 169 tests its truthiness).  ReadSize stands for the 4096 bytes    *)
(* of stream.read(4096).                                                   *)
(***************************************************************************)
EXTENDS Integers, Sequences, FiniteSets, TLC

MaxTime == 4
MaxVerifyDur == 1
ReadSize == 3

NoTime == 0 - 1
Streams == {"out", "err"}
ExitCodes == {0, 2}
KilledCodes == {0 - 15, 0 - 9}

Max(a, b) == IF a >= b THEN a ELSE b
Min(a, b) == IF a <= b THEN a ELSE b

Take(s, n) == SubSeq(s, 1, Min(Len(s), Max(n, 0)))

RECURSIVE Flatten(_)
Flatten(chunks) ==
    IF chunks = << >> THEN << >> ELSE Head(chunks) \o Flatten(Tail(chunks))

LastN(s, n) == SubSeq(s, Max(1, Len(s) - n + 1), Len(s))

\* s contains h as a contiguous substring (Python's `h in s`)
Contains(s, h) ==
    \E i \in 0..(Len(s) - Len(h)) : SubSeq(s, i + 1, i + Len(h)) = h

(***************************************************************************)
(* chunk.decode("utf-8", errors="replace") on the bytes of one chunk.      *)
(* Bytes: "a" an ASCII byte, "L" the lead byte and "C" the continuation    *)
(* byte of a two-byte character.  Characters: "a", "e" (the two-byte       *)
(* character) and "?" (U+FFFD, one for each byte that cannot be decoded).  *)
(***************************************************************************)
RECURSIVE Decode(_)
Decode(bs) ==
    IF bs = << >> THEN << >>
    ELSE IF Head(bs) = "a" THEN <<"a">> \o Decode(Tail(bs))
    ELSE IF Head(bs) = "L" /\ Len(bs) >= 2 /\ bs[2] = "C"
         THEN <<"e">> \o Decode(SubSeq(bs, 3, Len(bs)))
    ELSE <<"?">> \o Decode(Tail(bs))

VARIABLES
    req,                \* the arguments of run(), fixed for the run
    data,               \* what the child would write on each stream (bytes)
    clock,              \* time.monotonic() - start
    pc,                 \* position of the polling loop / result assembly
    now,                \* line 135
    reason, killed, forced_success,
    verified_at, next_verify_at, fast_mode, last_hint_scan_at,
    last_output,        \* last_output[0]
    buf, buf_len,       \* out_buf/err_buf (lists of chunks), out_len/err_len
    rpc,                \* each reader thread's position in _read_stream
    chunk,              \* the bytes of the chunk a reader has in hand (line 26)
    stamp,              \* the time.monotonic() a reader is about to store (line 29)
    wr, rd,             \* bytes the child has written / the reader has read
    pipe_open,          \* some process still holds the write ends of the pipes
    child,              \* "running", "exited" (on its own), "killed" (by a signal)
    returncode,         \* the child's exit status, NoCode while it runs
    reaped,             \* psutil collected that status (line 63) before Popen did
    result,             \* the RunResult, once returned
    exit_clock,         \* history: when the child exited on its own
    verify_true_at,     \* history: when the predicate first returned true
    kill_clock,         \* history: when the loop issued its termination
    escalated,          \* history: the bounded wait of line 185 timed out
    decoded,            \* history: the decoded text each reader has read so far
    outcome,            \* history: how the last call of the predicate ended
    hint_at,            \* history: the sample at which a hint was first matched
    hint_wait,          \* history: from that match to the next call of the predicate
    last_write,         \* history: when the child last wrote to a pipe
    invoked_at,         \* history: the sample at which the predicate was last called
    invoked_gap,        \* history: max(1, interval) of line 148 at that call
    term_calls,         \* history: calls of _terminate_process_tree made by run()
    tpc,                \* position of a call of _terminate_process_tree
    procs,              \* the process pid and its descendants
    children,           \* line 49
    alive,              \* line 63
    sig                 \* history: the strongest signal the call sent to each

runVars == <<req, data, clock, pc, now, reason, killed, forced_success, verified_at,
             next_verify_at, fast_mode, last_hint_scan_at, last_output, buf, buf_len,
             rpc, chunk, stamp, wr, rd, pipe_open, child, returncode, reaped, result,
             exit_clock, verify_true_at, kill_clock, escalated, decoded, outcome,
             hint_at, hint_wait, last_write, invoked_at, invoked_gap, term_calls>>
termVars == <<tpc, procs, children, alive, sig>>
vars == <<runVars, termVars>>

loopVars == <<now, reason, killed, forced_success, verified_at, next_verify_at,
              fast_mode, last_hint_scan_at>>
captureVars == <<last_output, buf, buf_len, rpc, chunk, stamp, rd, decoded, pipe_open>>
childVars == <<child, returncode, reaped, term_calls, exit_clock, wr>>
histVars == <<verify_true_at, kill_clock, escalated>>
obsVars == <<outcome, hint_at, hint_wait, last_write, invoked_at, invoked_gap>>

\* p.returncode is None (no exit status is that low)
NoCode == 0 - 1000
NoResult == [reason |-> "unset"]

(***************************************************************************)
(* The requests and children explored.  A request is the argument list of  *)
(* run(); soft_verify is whether a predicate was passed, hints is          *)
(* soft_success_hints (a set of character strings, {} for None or []).     *)
(***************************************************************************)
Request(t, i, v, sa, g, k, h, mo, me) ==
    [timeout_sec |-> t, idle_timeout_sec |-> i, soft_verify |-> v,
     soft_verify_start_after_sec |-> sa, soft_verify_every_sec |-> 2,
     soft_verify_fast_every_sec |-> 1, soft_verify_grace_sec |-> g,
     soft_verify_kill_if_no_exit_after_sec |-> k, soft_success_hints |-> h,
     max_out |-> mo, max_err |-> me]

GraceKill == {<<0, 0>>, <<1, 2>>, <<2, 0>>}
Hints == {<<"e">>}

\* without a predicate: no idle timeout, one shorter and one longer than the
\* hard timeout; with a predicate: hints are passed when the start is delayed
TimingRequests ==
    {Request(2, 0, FALSE, 0, 0, 0, {}, 2, 1),
     Request(3, 2, FALSE, 0, 0, 0, {}, 2, 1),
     Request(2, 3, FALSE, 0, 0, 0, {}, 2, 1)}
    \cup
    {Request(3, i, TRUE, sa, gk[1], gk[2], IF sa = 0 THEN {} ELSE Hints, 2, 1) :
        i \in {0, 2}, sa \in {0, 1}, gk \in GraceKill}
    \cup
    {Request(3, 0, TRUE, 0 - 1, 2, 0, {}, 2, 1)}

TimingCases ==
    {[req |-> r, data |-> [out |-> <<"L", "C", "a">>, err |-> << >>]] :
        r \in TimingRequests}
    \cup
    {[req |-> Request(3, 2, FALSE, 0, 0, 0, {}, 2, 1),
      data |-> [out |-> o, err |-> <<"a", "a", "a">>]] : o \in {<< >>, <<"L", "C", "a">>}}

CaptureCases ==
    {[req |-> Request(2, 0, FALSE, 0, 0, 0, {}, mo, 1),
      data |-> [out |-> o, err |-> << >>]] :
        mo \in {0, 1, 3},
        o \in {<<"a", "a">>, <<"a", "a", "a", "a">>, <<"L", "C", "L", "C">>}}
    \cup
    {[req |-> Request(2, 0, FALSE, 0, 0, 0, {}, 1, 1),
      data |-> [out |-> <<"a", "a", "a", "a">>, err |-> <<"a", "a">>]]}

Cases == TimingCases \cup CaptureCases

\* runs with success hints: the predicate is polled from the start, every 4
\* seconds and every second in fast mode, and no timeout ends the run; the
\* hint is at the start of the output, or behind the cap of the stream
HintRequest(mo) ==
    [Request(5, 0, TRUE, 0, 0, 0, Hints, mo, 1) EXCEPT !.soft_verify_every_sec = 4]

HintCases ==
    {[req |-> HintRequest(3), data |-> [out |-> <<"L", "C", "a">>, err |-> <<"a", "a">>]],
     [req |-> HintRequest(1),
      data |-> [out |-> <<"a", "a", "a", "L", "C", "a">>, err |-> << >>]]}

\* faulty variant: the start delay is ignored
FirstVerifyAt_NoDelay(delay) == 0

\* line 121: next_verify_at = start + max(0, soft_verify_start_after_sec)
FirstVerifyAt(delay) == 0 + Max(0, delay)

InitWith(cases) ==
    /\ \E c \in cases : req = c.req /\ data = c.data
    /\ clock = 0
    /\ pc = "poll"
    /\ now = 0
    /\ reason = "none"
    /\ killed = FALSE
    /\ forced_success = FALSE
    /\ verified_at = NoTime
    /\ next_verify_at = FirstVerifyAt(req.soft_verify_start_after_sec)
    /\ fast_mode = FALSE
    /\ last_hint_scan_at = 0
    /\ last_output = 0
    /\ buf = [s \in Streams |-> << >>]
    /\ buf_len = [s \in Streams |-> 0]
    /\ rpc = [s \in Streams |-> "read"]
    /\ chunk = [s \in Streams |-> << >>]
    /\ stamp = [s \in Streams |-> NoTime]
    /\ wr = [s \in Streams |-> 0]
    /\ rd = [s \in Streams |-> 0]
    /\ pipe_open = TRUE
    /\ child = "running"
    /\ returncode = NoCode
    /\ reaped = FALSE
    /\ result = NoResult
    /\ exit_clock = NoTime
    /\ verify_true_at = NoTime
    /\ kill_clock = NoTime
    /\ escalated = FALSE
    /\ decoded = [s \in Streams |-> << >>]
    /\ outcome = "none"
    /\ hint_at = NoTime
    /\ hint_wait = NoTime
    /\ invoked_at = NoTime
    /\ invoked_gap = 0
    /\ term_calls = 0
    /\ last_write = NoTime

\* the process tree of a call of _terminate_process_tree: the process pid
\* itself ("p"), a descendant that may be there from the start ("c1") and
\* one that may be spawned at any moment ("c2")
Procs == {"p", "c1", "c2"}
Descendants == Procs \ {"p"}

\* no call of _terminate_process_tree is followed step by step
TermIdle ==
    /\ tpc = "idle"
    /\ procs = [x \in Procs |-> "unborn"]
    /\ children = {}
    /\ alive = {}
    /\ sig = [x \in Procs |-> "none"]

Init == InitWith(Cases) /\ TermIdle

\* the runs with success hints
HintInit == InitWith(HintCases) /\ TermIdle

max_chars(s) == IF s = "out" THEN req.max_out ELSE req.max_err

(***************************************************************************)
(* The child: it writes its data byte by byte and may exit at any moment.  *)
(* The child and the (daemon) reader threads are followed until run()      *)
(* returns.                                                                *)
(***************************************************************************)
ChildWrite(s) ==
    /\ pc # "done"
    /\ child = "running"
    /\ wr[s] < Len(data[s])
    /\ wr' = [wr EXCEPT ![s] = @ + 1]
    /\ last_write' = clock
    /\ UNCHANGED <<outcome, hint_at, hint_wait, invoked_at, invoked_gap, termVars, req, data, clock, pc, loopVars, captureVars, child, returncode,
                   reaped, term_calls, exit_clock, result, histVars>>

ChildExit ==
    /\ pc # "done"
    /\ child = "running"
    /\ child' = "exited"
    /\ \E c \in ExitCodes : returncode' = c
    /\ exit_clock' = clock
    /\ UNCHANGED <<obsVars, termVars, req, data, clock, pc, loopVars, captureVars, reaped, term_calls, wr, result,
                   histVars>>

(***************************************************************************)
(* _read_stream: one pass of the loop body per chunk read.  The stream is  *)
(* a buffered reader on a blocking pipe: read(4096) returns once 4096      *)
(* bytes have arrived, or with what is left when the pipe is at end of     *)
(* file, which it is once every process holding its write end is gone.     *)
(***************************************************************************)
\* the last holder of the pipes' write ends goes away: at once when the child
\* is gone, later when a descendant that inherited them lives on
PipesClose ==
    /\ pc # "done"
    /\ child # "running"
    /\ pipe_open
    /\ pipe_open' = FALSE
    /\ UNCHANGED <<obsVars, termVars, req, data, clock, pc, loopVars, last_output, buf, buf_len, rpc,
                   chunk, stamp, rd, decoded, childVars, result, histVars>>

\* faulty variant: the chunk is appended whole, not cut to the remaining cap
Appended_NoTrim(b, len, text, cap) == Append(b, text)

\* lines 32-33: remaining = max_chars - buf_len[0]; buf.append(text[:remaining])
Appended(b, len, text, cap) == Append(b, Take(text, cap - len))

\* line 34: buf_len[0] += min(len(text), remaining)
Counted(len, text, cap) == len + Min(Len(text), cap - len)

readerVars == <<rpc, chunk, stamp>>

\* line 26: chunk = stream.read(4096), a non-empty chunk
ReadChunk(s) ==
    /\ pc # "done"
    /\ rpc[s] = "read"
    /\ rd[s] < wr[s]
    /\ (wr[s] - rd[s] >= ReadSize) \/ ~pipe_open
    /\ LET n == Min(ReadSize, wr[s] - rd[s])
       IN  /\ chunk' = [chunk EXCEPT ![s] = SubSeq(data[s], rd[s] + 1, rd[s] + n)]
           /\ rd' = [rd EXCEPT ![s] = @ + n]
    /\ rpc' = [rpc EXCEPT ![s] = "clock"]
    /\ UNCHANGED <<obsVars, termVars, req, data, clock, pc, loopVars, last_output, buf, buf_len, stamp,
                   decoded, pipe_open, childVars, result, histVars>>

\* line 29, the call: time.monotonic()
ReadClock(s) ==
    /\ pc # "done"
    /\ rpc[s] = "clock"
    /\ stamp' = [stamp EXCEPT ![s] = clock]
    /\ rpc' = [rpc EXCEPT ![s] = "stamp"]
    /\ UNCHANGED <<obsVars, termVars, req, data, clock, pc, loopVars, last_output, buf, buf_len, chunk,
                   rd, decoded, pipe_open, childVars, result, histVars>>

\* line 29, the store: last_output[0] = ...
StoreStamp(s) ==
    /\ pc # "done"
    /\ rpc[s] = "stamp"
    /\ last_output' = stamp[s]
    /\ rpc' = [rpc EXCEPT ![s] = "append"]
    /\ UNCHANGED <<obsVars, termVars, req, data, clock, pc, loopVars, buf, buf_len, chunk, stamp, rd,
                   decoded, pipe_open, childVars, result, histVars>>

\* lines 30-34: decode the chunk; below the cap, append what still fits and
\* advance the counter.  The counter is touched by its own reader only, so the
\* append and the counter update are one step for every other thread.
AppendText(s) ==
    /\ pc # "done"
    /\ rpc[s] = "append"
    /\ LET text == Decode(chunk[s])
       IN  /\ decoded' = [decoded EXCEPT ![s] = @ \o text]
           /\ IF buf_len[s] < max_chars(s)
              THEN /\ buf' = [buf EXCEPT
                                ![s] = Appended(@, buf_len[s], text, max_chars(s))]
                   /\ buf_len' = [buf_len EXCEPT
                                    ![s] = Counted(@, text, max_chars(s))]
              ELSE UNCHANGED <<buf, buf_len>>
    /\ rpc' = [rpc EXCEPT ![s] = "read"]
    /\ chunk' = [chunk EXCEPT ![s] = << >>]
    /\ UNCHANGED <<obsVars, termVars, req, data, clock, pc, loopVars, last_output, stamp, rd,
                   pipe_open, childVars, result, histVars>>

\* lines 27-28 and 35-39: read() returns b"" at end of file, the thread ends
ReaderEOF(s) ==
    /\ pc # "done"
    /\ rpc[s] = "read"
    /\ ~pipe_open
    /\ rd[s] = wr[s]
    /\ rpc' = [rpc EXCEPT ![s] = "closed"]
    /\ UNCHANGED <<obsVars, termVars, req, data, clock, pc, loopVars, last_output, buf, buf_len, chunk,
                   stamp, rd, decoded, pipe_open, childVars, result, histVars>>

(***************************************************************************)
(* _terminate_process_tree(p.pid), as far as the child is concerned.  A    *)
(* running child is sent SIGTERM (line 59); if it is gone within the       *)
(* bounded wait of line 63, psutil.wait_procs has collected its exit       *)
(* status (the child is a child of this process, so psutil waits for it    *)
(* with waitpid); otherwise it is sent SIGKILL (line 67), and nobody waits *)
(* for it here.  Every failure is swallowed, so the call may also leave    *)
(* the child running.  A child that has exited and has not been waited for *)
(* is still found by psutil.Process(pid), and line 63 collects its status. *)
(***************************************************************************)
\* faulty variant: the termination is not invoked
Terminate_Skipped == UNCHANGED <<child, returncode, reaped, term_calls>>

Terminate ==
    /\ term_calls' = term_calls + 1
    /\ IF child = "running"
       THEN \/ \E c \in KilledCodes :
                /\ child' = "killed"
                /\ returncode' = c
                /\ reaped' = (c = 0 - 15)
            \/ UNCHANGED <<child, returncode, reaped>>
       ELSE reaped' = TRUE /\ UNCHANGED <<child, returncode>>

\* p.returncode once p.wait() has returned: os.waitpid fails with ECHILD for a
\* child whose status was already collected, and Popen then reports 0
PopenCode == IF reaped THEN 0 ELSE returncode

(***************************************************************************)
(* The polling loop of run(), lines 130-181.                               *)
(***************************************************************************)
\* lines 131-136: rc = p.poll(); break on exit, else sample the clock
Poll ==
    /\ pc = "poll"
    /\ IF child # "running"
       THEN pc' = "wait" /\ UNCHANGED now
       ELSE pc' = "scan" /\ now' = clock
    /\ UNCHANGED <<obsVars, termVars, req, data, clock, reason, killed, forced_success, verified_at,
                   next_verify_at, fast_mode, last_hint_scan_at, captureVars,
                   childVars, result, histVars>>

HintTail == 10

combined ==
    Flatten(LastN(buf["out"], HintTail)) \o Flatten(LastN(buf["err"], HintTail))

\* line 142
HintMatched == \E h \in req.soft_success_hints : Contains(combined, h)

\* lines 139-143
HintScan ==
    /\ pc = "scan"
    /\ pc' = "verify"
    /\ IF req.soft_verify /\ req.soft_success_hints # {}
          /\ (now - last_hint_scan_at) >= 1
       THEN /\ last_hint_scan_at' = now
            /\ fast_mode' = (fast_mode \/ HintMatched)
            /\ hint_at' = IF HintMatched /\ hint_at = NoTime THEN now ELSE hint_at
       ELSE UNCHANGED <<last_hint_scan_at, fast_mode, hint_at>>
    /\ UNCHANGED <<outcome, hint_wait, last_write, invoked_at, invoked_gap, termVars, req, data, clock, now, reason,
                   killed, forced_success, verified_at, next_verify_at, captureVars,
                   childVars, result, histVars>>

\* faulty variant: the cadence mode is ignored
interval_AlwaysNormal == req.soft_verify_every_sec

\* line 147
interval ==
    IF fast_mode THEN req.soft_verify_fast_every_sec ELSE req.soft_verify_every_sec

\* faulty variant: a poll that is due calls the predicate again after it has
\* returned true
VerifyDue_Unsticky == req.soft_verify /\ now >= next_verify_at

\* line 146
VerifyDue == req.soft_verify /\ verified_at = NoTime /\ now >= next_verify_at

\* lines 146-148: the poll is due; schedule the next one and call the predicate
VerifyStart ==
    /\ pc = "verify"
    /\ IF VerifyDue
       THEN /\ pc' = "verifying"
            /\ next_verify_at' = now + Max(1, interval)
            /\ hint_wait' = IF hint_at # NoTime /\ hint_wait = NoTime
                             THEN now - hint_at ELSE hint_wait
            /\ invoked_at' = now
            /\ invoked_gap' = Max(1, interval)
       ELSE pc' = "check" /\ UNCHANGED <<next_verify_at, hint_wait, invoked_at, invoked_gap>>
    /\ UNCHANGED <<outcome, hint_at, last_write, termVars, req, data, clock, now, reason, killed,
                   forced_success, verified_at, fast_mode, last_hint_scan_at,
                   captureVars, childVars, result, histVars>>

\* faulty variant: a predicate that raises counts as confirmed
Ok_RaiseIsTrue(o) == o # "false"

\* lines 150-155: ok is the value returned, False if soft_verify() raised
Ok(o) == o = "true"

\* lines 150-156: soft_verify() runs for d seconds and returns or raises
VerifyReturn ==
    /\ pc = "verifying"
    /\ pc' = "check"
    /\ \E d \in 0..MaxVerifyDur, o \in {"true", "false", "raise"} :
          /\ clock + d <= MaxTime
          /\ clock' = clock + d
          /\ outcome' = o
          /\ verified_at' = IF Ok(o) THEN now ELSE verified_at
          /\ verify_true_at' = IF Ok(o) THEN clock' ELSE verify_true_at
    /\ UNCHANGED <<hint_at, hint_wait, last_write, invoked_at, invoked_gap, termVars, req, data, now, reason, killed,
                   forced_success, next_verify_at, fast_mode, last_hint_scan_at,
                   captureVars, childVars, result, kill_clock, escalated>>

\* faulty variant: the kill deadline is not awaited, the grace period alone decides
VerifiedKillDue_GraceOnly ==
    /\ verified_at # NoTime
    /\ (now - verified_at) >= req.soft_verify_grace_sec

\* lines 158-162
VerifiedKillDue ==
    /\ verified_at # NoTime
    /\ (now - verified_at) >= req.soft_verify_grace_sec
    /\ (now - verified_at) >= req.soft_verify_kill_if_no_exit_after_sec

\* faulty variant: idleness is measured from launch, not from the last read
IdleDue_FromStart ==
    /\ req.idle_timeout_sec # 0
    /\ now >= req.idle_timeout_sec

\* line 169
IdleDue ==
    /\ req.idle_timeout_sec # 0
    /\ (now - last_output) >= req.idle_timeout_sec

\* line 175
HardDue == now >= req.timeout_sec

\* faulty variant: the hard timeout is tested before the idle timeout
Decision_HardFirst ==
    IF VerifiedKillDue THEN "verified_early_exit"
    ELSE IF HardDue THEN "timeout"
    ELSE IF IdleDue THEN "idle_timeout"
    ELSE "none"

\* lines 158-179: the reason of the termination this iteration issues, "none" if none
Decision ==
    IF VerifiedKillDue THEN "verified_early_exit"
    ELSE IF IdleDue THEN "idle_timeout"
    ELSE IF HardDue THEN "timeout"
    ELSE "none"

\* lines 158-181
Check ==
    /\ pc = "check"
    /\ IF Decision = "none"
       THEN /\ pc' = "sleep"
            /\ UNCHANGED <<reason, killed, forced_success, child, returncode,
                           reaped, term_calls, kill_clock>>
       ELSE /\ reason' = Decision
            /\ Terminate
            /\ killed' = TRUE
            /\ forced_success' = (forced_success \/ Decision = "verified_early_exit")
            /\ kill_clock' = clock
            /\ pc' = "wait"
    /\ UNCHANGED <<obsVars, termVars, req, data, clock, now, verified_at, next_verify_at, fast_mode,
                   last_hint_scan_at, captureVars, exit_clock, wr, result,
                   verify_true_at, escalated>>

\* line 181: time.sleep(0.2)
Sleep ==
    /\ pc = "sleep"
    /\ pc' = "poll"
    /\ \E d \in {0, 1} : clock + d <= MaxTime /\ clock' = clock + d
    /\ UNCHANGED <<obsVars, termVars, req, data, loopVars, captureVars, childVars, result, histVars>>

\* faulty variant: the escalation records its own reason over the loop's
EscalatedReason_Overwrite(r) == "kill_wait"

\* line 187: reason = reason or "kill_wait"
EscalatedReason(r) == IF r # "none" THEN r ELSE "kill_wait"

(***************************************************************************)
(* Lines 183-190: the bounded wait and its escalation.  p.wait(timeout=5)  *)
(* returns when the child is gone; otherwise TimeoutExpired is handled and *)
(* the unbounded p.wait() of line 190 follows.                             *)
(***************************************************************************)
Wait ==
    /\ pc = "wait"
    /\ IF child # "running"
       THEN /\ pc' = "assemble"
            /\ UNCHANGED <<reason, killed, child, returncode, reaped, term_calls,
                           escalated>>
       ELSE /\ reason' = EscalatedReason(reason)
            /\ Terminate
            /\ killed' = TRUE
            /\ escalated' = TRUE
            /\ pc' = "wait190"
    /\ UNCHANGED <<obsVars, termVars, req, data, clock, now, forced_success, verified_at, next_verify_at,
                   fast_mode, last_hint_scan_at, captureVars, exit_clock, wr, result,
                   verify_true_at, kill_clock>>

\* line 190: p.wait() returns only once the child is gone
WaitForever ==
    /\ pc = "wait190"
    /\ child # "running"
    /\ pc' = "assemble"
    /\ UNCHANGED <<obsVars, termVars, req, data, clock, loopVars, captureVars, childVars, result,
                   histVars>>

\* faulty variant: the exit code is not forced to 0 after a verified early exit
ExitCode_Unforced(forced, rcode) ==
    IF rcode # NoCode THEN rcode ELSE 124

\* line 198
ExitCode(forced, rcode) ==
    IF forced THEN 0 ELSE IF rcode # NoCode THEN rcode ELSE 124

\* faulty variant: every engine-initiated termination counts as timed out
TimedOut_AnyReason(r, forced) == (r # "none") /\ ~forced

\* line 199
TimedOut(r, forced) == (r = "timeout") /\ ~forced

\* lines 195-196
Output(b, cap) == Take(Flatten(b), cap)

(***************************************************************************)
(* Lines 192-209: the joins are bounded (2 s each), so the result is built *)
(* from whatever the readers have appended by then.  A join times out only *)
(* on a reader blocked in read() (the pipe still open and less than a full *)
(* read pending): a reader that can go on is through well within the 2 s.  *)
(***************************************************************************)
ReaderBlocked(s) == rpc[s] = "read" /\ pipe_open /\ wr[s] - rd[s] < ReadSize

Assemble ==
    /\ pc = "assemble"
    /\ \A s \in Streams : rpc[s] = "closed" \/ ReaderBlocked(s)
    /\ pc' = "done"
    /\ result' = [exit_code |-> ExitCode(forced_success, PopenCode),
                  stdout |-> Output(buf["out"], req.max_out),
                  stderr |-> Output(buf["err"], req.max_err),
                  timed_out |-> TimedOut(reason, forced_success),
                  killed |-> killed,
                  reason |-> reason]
    /\ UNCHANGED <<obsVars, termVars, req, data, clock, loopVars, captureVars, childVars, histVars>>

Next ==
    \/ \E s \in Streams : ChildWrite(s)
    \/ ChildExit
    \/ PipesClose
    \/ \E s \in Streams : ReadChunk(s)
    \/ \E s \in Streams : ReadClock(s)
    \/ \E s \in Streams : StoreStamp(s)
    \/ \E s \in Streams : AppendText(s)
    \/ \E s \in Streams : ReaderEOF(s)
    \/ Poll
    \/ HintScan
    \/ VerifyStart
    \/ VerifyReturn
    \/ Check
    \/ Sleep
    \/ Wait
    \/ WaitForever
    \/ Assemble

Spec == Init /\ [][Next]_vars

HintSpec == HintInit /\ [][Next]_vars

(***************************************************************************)
(* _terminate_process_tree(pid), lines 42-69, statement by statement, on   *)
(* a process tree that lives on its own while the call runs: a running     *)
(* process may spawn a descendant and may exit at any moment (by itself or *)
(* on SIGTERM; it may as well ignore SIGTERM).  A process that does not    *)
(* run any more is "gone".                                                 *)
(***************************************************************************)
TermCase ==
    [req |-> Request(2, 0, FALSE, 0, 0, 0, {}, 2, 1), data |-> [out |-> << >>, err |-> << >>]]

\* the call starts on a running process, with or without a descendant
TermInit ==
    /\ InitWith({TermCase})
    /\ tpc = "lookup"
    /\ \E c \in {"unborn", "running"} :
          procs = [x \in Procs |-> IF x = "p" THEN "running"
                                   ELSE IF x = "c1" THEN c ELSE "unborn"]
    /\ children = {}
    /\ alive = {}
    /\ sig = [x \in Procs |-> "none"]

Running(x) == procs[x] = "running"

\* a running process of the tree starts a descendant
Spawn(c) ==
    /\ tpc \notin {"idle", "returned"}
    /\ procs[c] = "unborn"
    /\ \E x \in Procs : Running(x)
    /\ procs' = [procs EXCEPT ![c] = "running"]
    /\ UNCHANGED <<runVars, tpc, children, alive, sig>>

\* a running process of the tree exits
ProcExit(x) ==
    /\ tpc \notin {"idle", "returned"}
    /\ Running(x)
    /\ procs' = [procs EXCEPT ![x] = "gone"]
    /\ UNCHANGED <<runVars, tpc, children, alive, sig>>

\* lines 43-46: psutil.Process(pid) finds the process, also one that has
\* exited and has not been waited for
T_Lookup ==
    /\ tpc = "lookup"
    /\ tpc' = "children"
    /\ UNCHANGED <<runVars, procs, children, alive, sig>>

\* lines 48-51: the descendants that exist now; none if the process itself
\* is gone (its descendants have another parent then, or the lookup raises)
T_Children ==
    /\ tpc = "children"
    /\ children' = IF Running("p") THEN {c \in Descendants : Running(c)} ELSE {}
    /\ tpc' = "term_children"
    /\ UNCHANGED <<runVars, procs, alive, sig>>

\* lines 53-57: SIGTERM to each descendant listed, failures swallowed
T_TermChildren ==
    /\ tpc = "term_children"
    /\ sig' = [x \in Procs |-> IF x \in children /\ Running(x) THEN "term" ELSE sig[x]]
    /\ tpc' = "term_proc"
    /\ UNCHANGED <<runVars, procs, children, alive>>

\* lines 58-61: SIGTERM to the process itself, failure swallowed
T_TermProc ==
    /\ tpc = "term_proc"
    /\ sig' = [sig EXCEPT !["p"] = IF Running("p") THEN "term" ELSE @]
    /\ tpc' = "wait"
    /\ UNCHANGED <<runVars, procs, children, alive>>

\* line 63: the bounded wait is over; alive are those listed that still run
T_Wait ==
    /\ tpc = "wait"
    /\ alive' = {x \in children \cup {"p"} : Running(x)}
    /\ tpc' = "kill"
    /\ UNCHANGED <<runVars, procs, children, sig>>

\* lines 65-69: SIGKILL to each of alive; a failure is swallowed and leaves
\* that process as it is
T_Kill ==
    /\ tpc = "kill"
    /\ \E K \in SUBSET alive :
          /\ procs' = [x \in Procs |-> IF x \in K THEN "gone" ELSE procs[x]]
          /\ sig' = [x \in Procs |-> IF x \in K THEN "kill"
                                     ELSE IF x \in alive THEN "kill_failed"
                                     ELSE sig[x]]
    /\ tpc' = "returned"
    /\ UNCHANGED <<runVars, children, alive>>

TermNext ==
    \/ \E c \in Descendants : Spawn(c)
    \/ \E x \in Procs : ProcExit(x)
    \/ T_Lookup
    \/ T_Children
    \/ T_TermChildren
    \/ T_TermProc
    \/ T_Wait
    \/ T_Kill

TermSpec == TermInit /\ [][TermNext]_vars

(***************************************************************************)
(* Properties of the results of run().                                     *)
(***************************************************************************)
Done == pc = "done"

NaturalExit(r) ==
    /\ r.reason = "none"
    /\ r.killed = FALSE
    /\ r.timed_out = FALSE
    /\ r.exit_code = returncode

Grace == req.soft_verify_grace_sec
KillAfter == req.soft_verify_kill_if_no_exit_after_sec

\* C1: whenever the child exited on its own (no signal of the engine ended it),
\* the result reports the natural exit: reason unset, killed and timed_out
\* false, exit_code the child's exit status.
C1_NaturalExitWins ==
    (Done /\ child = "exited") => NaturalExit(result)

\* C2: without a verification predicate, a child that exits on its own before
\* the hard timeout has elapsed yields the natural-exit result with its real
\* exit code.
C2_NoVerifyNaturalExit ==
    (Done /\ ~req.soft_verify /\ child = "exited" /\ exit_clock < req.timeout_sec)
        => NaturalExit(result)

\* C3: a result whose reason is verified_early_exit has exit_code 0, timed_out
\* false and killed true, whatever exit status the child ended with and whether
\* or not the final wait escalated.
C3_VerifiedForcesSuccess ==
    (Done /\ result.reason = "verified_early_exit")
        => (result.exit_code = 0 /\ result.timed_out = FALSE /\ result.killed = TRUE)

\* C3 witness: a verified early exit after the final wait escalated, the child
\* ending with a non-zero status.
C3_Witness ==
    /\ Done
    /\ result.reason = "verified_early_exit"
    /\ escalated
    /\ returncode # 0

\* C4 as claimed: once the predicate is confirmed (at T = verified_at) and the
\* child does not exit on its own, the run ends with verified_early_exit, exit
\* code 0, timed_out false, at T + kill deadline within one poll step, for all
\* values of grace, kill deadline, idle timeout and hard timeout.
C4_Original ==
    (Done /\ verified_at # NoTime /\ child # "exited")
        => /\ result.reason = "verified_early_exit"
           /\ result.exit_code = 0
           /\ result.timed_out = FALSE
           /\ now - verified_at \in KillAfter..(KillAfter + 1)

\* C4 amended: the verified kill is issued in the first iteration whose time
\* sample reaches T + max(grace, kill deadline), T the sample of the confirming
\* iteration: not before it, and within one poll step of the later of that
\* instant and the predicate's return.  An idle or hard timeout that fires in
\* an earlier iteration ends the run with its own reason instead.  A confirmed
\* run whose child does not exit on its own ends in one of these three ways,
\* the verified one with exit_code 0 and timed_out false.
C4_VerifiedKill ==
    /\ reason = "verified_early_exit"
          => /\ verified_at # NoTime
             /\ now >= verified_at + Max(Grace, KillAfter)
             /\ now <= Max(verified_at + Max(Grace, KillAfter), verify_true_at + 1)
             /\ killed /\ forced_success
    /\ (reason \in {"idle_timeout", "timeout"} /\ verified_at # NoTime)
          => now < verified_at + Max(Grace, KillAfter)
    /\ (Done /\ verified_at # NoTime /\ child # "exited")
          => /\ result.reason \in {"verified_early_exit", "idle_timeout", "timeout"}
             /\ result.reason = "verified_early_exit"
                   => (result.exit_code = 0 /\ result.timed_out = FALSE)

\* C4 witness: a verified early exit of a child that never exited, issued
\* later than T + kill deadline because the grace period is the longer one.
C4_Witness ==
    /\ Done
    /\ result.reason = "verified_early_exit"
    /\ child = "killed"
    /\ Grace > KillAfter
    /\ now = verified_at + Grace

\* C5: the verified kill is never issued earlier than the grace period after
\* the instant at which the predicate returned true.
C5_GraceFromTrue ==
    reason = "verified_early_exit" => kill_clock - verify_true_at >= Grace

\* the loop leaves line 158-179 in this step: it breaks or goes to sleep
CheckStep == pc = "check" /\ pc' # "check"

\* the conditions of one iteration, as the iteration evaluates them
VerifiedCond ==
    /\ verified_at # NoTime
    /\ now - verified_at >= Grace
    /\ now - verified_at >= KillAfter
IdleCond == req.idle_timeout_sec # 0 /\ now - last_output >= req.idle_timeout_sec
HardCond == now - 0 >= req.timeout_sec

\* C6: one iteration decides in the order natural exit > verified kill > idle
\* timeout > hard timeout: an iteration whose poll finds the child gone breaks
\* with no reason set; otherwise the reason recorded is that of the first
\* condition that holds, and the loop sleeps only if none holds; an idle
\* timeout result has timed_out false even when the hard timeout had elapsed.
C6_Priority ==
    /\ [][/\ (pc = "poll" /\ pc' # "poll" /\ child # "running")
                => (pc' = "wait" /\ reason' = "none" /\ killed' = FALSE)
          /\ (CheckStep /\ VerifiedCond)
                => (pc' = "wait" /\ reason' = "verified_early_exit")
          /\ (CheckStep /\ ~VerifiedCond /\ IdleCond)
                => (pc' = "wait" /\ reason' = "idle_timeout")
          /\ (CheckStep /\ ~VerifiedCond /\ ~IdleCond /\ HardCond)
                => (pc' = "wait" /\ reason' = "timeout")
          /\ (CheckStep /\ ~VerifiedCond /\ ~IdleCond /\ ~HardCond)
                => (pc' = "sleep" /\ reason' = "none")]_vars
    /\ [](Done => /\ result.reason = reason
                  /\ result.reason = "idle_timeout" => result.timed_out = FALSE)

\* C6 witness: all three of verified kill, idle timeout and hard timeout were
\* due in the iteration that ended the loop, and the verified kill was recorded.
C6_Witness ==
    /\ pc = "wait"
    /\ reason = "verified_early_exit"
    /\ IdleCond
    /\ HardCond

IdleTimeout == req.idle_timeout_sec
Silent == \A s \in Streams : rd[s] = 0

\* C7 as claimed: with idle_timeout set, a child that writes nothing and does
\* not exit always ends with reason idle_timeout and killed true, about
\* idle_timeout after launch.
C7_Original ==
    (Done /\ IdleTimeout # 0 /\ child # "exited" /\ \A s \in Streams : wr[s] = 0)
        => /\ result.reason = "idle_timeout"
           /\ result.killed = TRUE
           /\ now \in IdleTimeout..(IdleTimeout + 1)

\* C7 amended: with idle_timeout set, the first iteration that finds the child
\* running and at least idle_timeout elapsed since the recorded last-activity
\* timestamp (the launch if nothing was read) ends the loop, with reason
\* idle_timeout and killed true unless the verified kill is due in that same
\* iteration; the idle termination is never issued earlier and, while only
\* one stream has delivered data, no later than one poll step after
\* idle_timeout of silence plus the time the predicate ran in the preceding
\* iteration (none without a predicate).  A run of a silent child that does
\* not exit ends with idle_timeout unless the hard timeout is shorter than
\* the idle timeout or the verified kill came first.
C7_IdleTimeout ==
    /\ [][CheckStep =>
            /\ (IdleCond /\ ~VerifiedCond)
                  => (pc' = "wait" /\ reason' = "idle_timeout" /\ killed' = TRUE)
            /\ (reason' = "idle_timeout")
                  => /\ IdleCond
                     /\ (\E s \in Streams : rd[s] = 0)
                           => now - last_output <=
                                 IdleTimeout + (IF req.soft_verify THEN MaxVerifyDur ELSE 0)]_vars
    /\ [](Done /\ result.reason = "idle_timeout"
             => (result.killed = TRUE /\ result.timed_out = FALSE /\ IdleTimeout # 0))
    /\ [](Done /\ IdleTimeout # 0 /\ child # "exited" /\ Silent
             => \/ result.reason = "idle_timeout"
                \/ result.reason = "timeout" /\ req.timeout_sec < IdleTimeout
                \/ result.reason = "verified_early_exit" /\ req.soft_verify)

\* C7 witness: an idle timeout measured from a read later than launch, issued
\* to a child that was still running.
C7_Witness ==
    /\ Done
    /\ result.reason = "idle_timeout"
    /\ child = "killed"
    /\ last_output > 0
    /\ now - last_output = IdleTimeout

\* C8: timed_out is true exactly for reason timeout, and then killed is true;
\* an iteration in which only the hard timeout is due records reason timeout
\* and killed, and the result of such a run has timed_out true.
C8_TimedOut ==
    /\ [](Done => /\ result.timed_out = (result.reason = "timeout")
                  /\ result.timed_out => result.killed
                  /\ reason = "timeout" => result.timed_out)
    /\ [][(CheckStep /\ HardCond /\ ~VerifiedCond /\ ~IdleCond)
             => (pc' = "wait" /\ reason' = "timeout" /\ killed' = TRUE)]_vars
    /\ [][reason = "timeout" => reason' = "timeout" /\ killed' = TRUE]_vars

\* C8 witness: a hard-timeout result, kept through the escalation of the wait.
C8_Witness ==
    /\ Done
    /\ result.reason = "timeout"
    /\ result.timed_out = TRUE
    /\ escalated

\* C9: in every state each reader's length counter is at most its cap and
\* equals the total length of the chunks in its buffer; the result's stdout
\* and stderr are no longer than max_out and max_err, whatever chunks were
\* read.
C9_CapsRespected ==
    /\ \A s \in Streams :
          /\ buf_len[s] <= max_chars(s)
          /\ buf_len[s] = Len(Flatten(buf[s]))
    /\ Done => /\ Len(result.stdout) <= req.max_out
               /\ Len(result.stderr) <= req.max_err

\* C9 witness: the result of a run whose stdout reader reached its cap in the
\* middle of its first chunk and discarded the rest and the chunk after it.
C9_Witness ==
    /\ Done
    /\ req.max_out > 0
    /\ Len(result.stdout) = req.max_out
    /\ Len(decoded["out"]) > ReadSize
    /\ ReadSize > req.max_out
    /\ Len(buf["out"]) = 1

AllWritten(s) == wr[s] = Len(data[s])
Ascii(s) == \A i \in 1..Len(data[s]) : data[s][i] = "a"

\* C10: a child that wrote N units on stdout with max_out = K < N
\* gets a result whose stdout has length exactly K, however the run ended and
\* wherever the reader was when the result was assembled.  N is counted in
\* characters here, which are no more than the bytes.
C10_TruncationExact ==
    (Done /\ Len(Decode(data["out"])) > req.max_out /\ AllWritten("out"))
        => Len(result.stdout) = req.max_out

\* What the code does guarantee about truncation: the result's stdout is the
\* first min(K, M) characters, in order, of the text the stdout reader had
\* decoded when the result was assembled (M its length).
TruncationPrefix ==
    Done => /\ result.stdout = Take(decoded["out"], req.max_out)
            /\ Len(decoded["out"]) >= req.max_out => Len(result.stdout) = req.max_out
            /\ Ascii("out")
                  => result.stdout = Take(data["out"], Min(rd["out"], req.max_out))

Reasons == {"none", "timeout", "idle_timeout", "verified_early_exit", "kill_wait"}

\* C11: every result records one outcome out of natural exit (no reason),
\* timeout, idle_timeout, verified_early_exit and kill_wait; a reason, once
\* assigned, is never assigned again, in particular not by the escalation of
\* the final wait; kill_wait is recorded only by an escalation that found no
\* reason set; killed is false exactly for the natural exit.
C11_OneOutcome ==
    /\ [][reason # "none" => reason' = reason]_vars
    /\ [][(reason = "none" /\ reason' = "kill_wait")
             => (pc = "wait" /\ escalated' /\ kill_clock = NoTime)]_vars
    /\ [](reason = "kill_wait" => (escalated /\ kill_clock = NoTime))
    /\ [](Done => /\ result.reason \in Reasons
                  /\ result.reason = reason
                  /\ result.killed = (result.reason # "none"))

\* C11 witness: a result whose reason was set by the loop and kept by the
\* escalation of the final wait.
C11_Witness ==
    /\ Done
    /\ escalated
    /\ result.reason = "idle_timeout"
    /\ kill_clock # NoTime

\* C12: once the predicate has returned true, it is never called again and
\* verified_at never changes.
C12_Sticky ==
    [][verified_at # NoTime => (verified_at' = verified_at /\ pc' # "verifying")]_vars

\* C12 witness: a later iteration of a confirmed run in which the next poll
\* instant has passed and the predicate was not called.
C12_Witness ==
    /\ pc = "check"
    /\ verified_at # NoTime
    /\ now > verified_at
    /\ now >= next_verify_at

\* the call of the predicate returns or raises in this step
VerifyReturns == pc = "verifying" /\ pc' = "check"

\* C13: a predicate that raises is taken as false and run() goes on: after
\* that poll the run is unconfirmed, the next poll instant lies ahead, no
\* reason is set, the iteration issues no verified kill, and the run ends
\* with a result that is not a verified early exit.
C13_RaiseIsFalse ==
    /\ [][(VerifyReturns /\ outcome' = "raise")
             => /\ verified_at' = NoTime
                /\ next_verify_at' > now
                /\ reason' = "none" /\ killed' = FALSE]_vars
    /\ []((pc = "check" /\ outcome = "raise")
             => (verified_at = NoTime /\ Decision # "verified_early_exit"))
    /\ []((Done /\ outcome = "raise")
             => result.reason \in {"none", "idle_timeout", "timeout"})

\* C13 witness: the predicate raised, the loop went on and later ended the
\* run by the hard timeout.
C13_Witness ==
    /\ Done
    /\ outcome = "raise"
    /\ result.reason = "timeout"
    /\ now > 0

\* C14: a termination call on a child that has already exited does not change
\* the run's result: the exit code reported for a child that exited on its
\* own is that child's exit status (0 after a verified early exit).
C14_TerminateKeepsResult ==
    (Done /\ child = "exited" /\ ~forced_success) => result.exit_code = returncode

\* C16: run() never waits without bound for a child that is still running:
\* when the bounded wait of line 185 has timed out, the escalation has ended
\* the child by the time run() waits for it again at line 190.
C16_BoundedWait ==
    pc = "wait190" => child # "running"

\* C19: the last-activity timestamp never moves backwards: a reader about to
\* store its timestamp holds one that is no older than the one recorded.
C19_StampMonotone ==
    \A s \in Streams : rpc[s] = "stamp" => stamp[s] >= last_output

\* the iteration scans the output for hints in this step (lines 139-143)
ScanStep ==
    /\ pc = "scan" /\ pc' = "verify"
    /\ req.soft_verify /\ req.soft_success_hints # {}
    /\ now - last_hint_scan_at >= 1

\* a hint is in the text a reader has read from its stream
HintObserved ==
    \E h \in req.soft_success_hints, s \in Streams : Contains(decoded[s], h)

\* C17: a scan made while a hint is in the output read so far switches to the
\* fast cadence, wherever the hint is in the output and whether or not the
\* cap of its stream had been reached when it arrived.
C17_HintSwitchesFast ==
    [][(ScanStep /\ HintObserved) => fast_mode']_vars

\* C18: after a hint match, the next call of the predicate comes no later
\* than the fast interval (and one poll step) after the match.
C18_HintTightensPolling ==
    hint_wait # NoTime => hint_wait <= req.soft_verify_fast_every_sec + 1

\* C20: a child that keeps producing output is never terminated for idleness:
\* when an iteration issues the idle termination, the child has written
\* nothing for at least idle_timeout.
C20_ProducingNeverIdle ==
    [][(CheckStep /\ reason' = "idle_timeout")
          => (last_write = NoTime \/ now - last_write >= IdleTimeout)]_vars

\* C15: when a call of _terminate_process_tree(pid) that found pid running
\* (and signalled it) returns, every process of the tree of pid, those spawned
\* during the call included, has exited or the call has tried SIGKILL on it.
C15_TreeTerminated ==
    (tpc = "returned" /\ sig["p"] # "none")
        => \A x \in Procs : ~Running(x) \/ sig[x] \in {"kill", "kill_failed"}

\* p is a prefix of s
IsPrefix(p, s) == Len(p) <= Len(s) /\ p = SubSeq(s, 1, Len(p))

\* C21: the result is built even when a reader has not finished, and its
\* stdout and stderr are the in-order concatenation of the chunks the readers
\* had appended, cut to the cap: a prefix of what the child wrote on that
\* stream (as text).
C21_ReadDataKept ==
    Done => /\ result.stdout = Take(Flatten(buf["out"]), req.max_out)
            /\ result.stderr = Take(Flatten(buf["err"]), req.max_err)
            /\ IsPrefix(result.stdout, Decode(data["out"]))
            /\ IsPrefix(result.stderr, Decode(data["err"]))

\* the predicate is called in this step (lines 146-151)
InvokeStep == pc = "verify" /\ pc' = "verifying"

\* C22: fast mode, once switched on by a hint match, is never switched off,
\* and every poll made in fast mode schedules the next one
\* max(1, soft_verify_fast_every_sec) later.
C22_FastIsPermanent ==
    /\ [][fast_mode => fast_mode']_vars
    /\ [][(InvokeStep /\ fast_mode)
             => next_verify_at' = now + Max(1, req.soft_verify_fast_every_sec)]_vars
    /\ [](fast_mode => hint_at # NoTime)

\* C22 witness: a poll made in an iteration later than the one that matched
\* the hint, scheduled at the fast interval, which differs from the normal one.
C22_Witness ==
    /\ pc = "verifying"
    /\ fast_mode
    /\ now > hint_at
    /\ next_verify_at = now + Max(1, req.soft_verify_fast_every_sec)
    /\ req.soft_verify_fast_every_sec # req.soft_verify_every_sec


\* C23: the predicate is never called before the start delay has elapsed
\* (a negative delay counting as 0), is called only in an iteration whose
\* poll found the child running, and two consecutive calls are at least
\* max(1, interval) apart, the interval being the one in force at the first.
C23_VerifySchedule ==
    /\ [][InvokeStep =>
            /\ now = clock
            /\ now >= Max(0, req.soft_verify_start_after_sec)
            /\ (invoked_at # NoTime => now - invoked_at >= invoked_gap)]_vars
    /\ [][(pc = "poll" /\ pc' # "poll") =>
            IF child = "running" THEN pc' = "scan" /\ now' = clock
                                 ELSE pc' = "wait"]_vars
    /\ [][(pc # "scan" /\ pc' = "scan") => (pc = "poll" /\ child = "running")]_vars
    /\ [][(pc # "verify" /\ pc' = "verify") => pc = "scan"]_vars
    /\ [][(pc # "verifying" /\ pc' = "verifying") => pc = "verify"]_vars

\* C23 witness: the second call of a run whose start delay is positive.
C23_Witness ==
    /\ pc = "verifying"
    /\ req.soft_verify_start_after_sec > 0
    /\ outcome # "none"
    /\ invoked_at = now
    /\ now >= req.soft_verify_start_after_sec + invoked_gap


\* C24: in every result, killed is true exactly when a termination reason is
\* set, so a result without a reason has killed and timed_out false; and each
\* path on which the engine ends the run (verified, idle, hard timeout, the
\* escalation of the wait) calls the process-tree termination before the
\* result is built.
C24_KilledIffReason ==
    /\ [](killed = (reason # "none"))
    /\ [](Done => /\ result.killed = (result.reason # "none")
                  /\ (result.reason = "none"
                        => (result.killed = FALSE /\ result.timed_out = FALSE))
                  /\ (result.killed => term_calls >= 1))
    /\ [][(reason = "none" /\ reason' # "none") => term_calls' = term_calls + 1]_vars
    /\ [][(~escalated /\ escalated') => term_calls' = term_calls + 1]_vars
    /\ [][Done => term_calls' = term_calls]_vars

\* C24 witness: a hard timeout whose final wait escalated, the termination
\* having been called by the loop and again by the escalation.
C24_Witness ==
    /\ Done
    /\ result.killed
    /\ result.timed_out
    /\ result.reason = "timeout"
    /\ escalated
    /\ term_calls = 2


\* the child exited on its own before any termination was issued: no call was
\* made, or the only call made found the child already gone
ExitedBeforeKill ==
    /\ child = "exited"
    /\ \/ term_calls = 0
       \/ term_calls = 1 /\ reaped

\* C25: when the predicate has returned true and the child then exits on its
\* own before the verified kill is issued, the result is the natural exit:
\* reason unset, killed false, exit_code the child's own exit status; success
\* is forced only on a child still running when both deadlines have passed.
C25_ExitBeforeVerifiedKill ==
    (Done /\ verify_true_at # NoTime /\ exit_clock > verify_true_at /\ ExitedBeforeKill)
        => (~forced_success /\ NaturalExit(result))

====
